---- MODULE Spec2Model ----
(***************************************************************************)
(* Model of scripts/extract-ui-elements.py: the transparency-bounds        *)
(* cropper (autocrop_transparency), the padded region crop and the         *)
(* per-region loop of find_elements, the region table of define_ui_regions *)
(* and the metadata written by main.                                       *)
(*                                                                         *)
(* An image is a record [mode, w, h, a]; a[r][c] is the opacity of the     *)
(* pixel in row r, column c (numpy's img_array[r, c, 3]), rows 0..h-1 and  *)
(* columns 0..w-1.  The colour channels travel with the opacity in every   *)
(* crop and are never read by the code, so a pixel is its opacity.         *)
(***************************************************************************)
EXTENDS Integers, Sequences, FiniteSets, TLC

VARIABLES img, thr, box, padding, dirExists, pc, i, rect, bounds,
          element_img, second_img, extracted, files, metadata,
          img0, table, ppc, local_img, results

vars == <<img, thr, box, padding, dirExists, pc, i, rect, bounds,
          element_img, second_img, extracted, files, metadata,
          img0, table, ppc, local_img, results>>

----
\* Program constants

\* find_elements: mask = alpha > 10
ContentThreshold == 10

\* autocrop_transparency(img, threshold=10)
DefaultThreshold == 10

\* find_elements(image_path, output_dir, padding=20)
DefaultPadding == 20

\* alpha of a pixel after img.convert('RGBA') of an image without alpha
Opaque == 255

\* alpha of a pixel that img.crop reads outside the image
Transparent == 0

----
\* Bounds of the model

\* autocrop alone (SpecCrop): images up to MaxW x MaxH with at most
\* MaxMarked pixels of non-zero opacity
MaxW == 3
MaxH == 3
MaxMarked == 2

\* one region through the padded crop and autocrop (SpecBox): images up to
\* BoxW x BoxH with at most BoxMarked marked pixels, paddings 0 .. MaxPad
BoxW == 3
BoxH == 2
BoxMarked == 2
MaxPad == 1

\* a run of main (Spec): source images of RunW x 1 pixels (and of 1 x 1)
\* with at most RunMarked marked pixels.  With the padding of 20 a region's
\* padded rectangle leaves out part of the image only if the image is
\* wider than about 25 pixels.
RunW == 30
RunMarked == 1

\* the loop body run out of order (SpecPar): ParWorkers regions at a time
ParWorkers == 2

----
\* Python builtins

Max(a, b) == IF a >= b THEN a ELSE b

Min(a, b) == IF a <= b THEN a ELSE b

\* np.where(v)[0]: the indices at which the boolean vector v is true
Where(v) == {k \in DOMAIN v : v[k]}

\* np.where(v)[0][0]
First(S) == CHOOSE k \in S : \A m \in S : k <= m

\* a slip taking index 0 where index -1 is meant
LastTakesFirst(S) == CHOOSE k \in S : \A m \in S : k <= m

\* np.where(v)[0][-1]
Last(S) == CHOOSE k \in S : \A m \in S : k >= m

----
\* PIL / numpy primitives

NoImage == [mode |-> "None", w |-> 0, h |-> 0, a |-> <<>>]

\* a crop that forgets the offset of the rectangle
CropNoOffset(image, left, upper, right, lower) ==
    [mode |-> image.mode,
     w    |-> right - left,
     h    |-> lower - upper,
     a    |-> [rr \in 0 .. (lower - upper - 1) |->
                 [cc \in 0 .. (right - left - 1) |->
                    IF rr \in 0 .. (image.h - 1) /\ cc \in 0 .. (image.w - 1)
                    THEN image.a[rr][cc]
                    ELSE Transparent]]]

\* img.crop((left, upper, right, lower)): a NEW image of right-left by
\* lower-upper pixels; pixel (column cc, row rr) of the result is pixel
\* (left + cc, upper + rr) of the source, transparent outside the source.
Crop(image, left, upper, right, lower) ==
    [mode |-> image.mode,
     w    |-> right - left,
     h    |-> lower - upper,
     a    |-> [rr \in 0 .. (lower - upper - 1) |->
                 [cc \in 0 .. (right - left - 1) |->
                    IF /\ upper + rr \in 0 .. (image.h - 1)
                       /\ left + cc \in 0 .. (image.w - 1)
                    THEN image.a[upper + rr][left + cc]
                    ELSE Transparent]]]

\* img.convert('RGBA'): an image without alpha gets a fully opaque one
ConvertRGBA(image) ==
    IF image.mode = "RGBA" THEN image
    ELSE [mode |-> "RGBA", w |-> image.w, h |-> image.h,
          a |-> [rr \in 0 .. (image.h - 1) |->
                   [cc \in 0 .. (image.w - 1) |-> Opaque]]]

\* a mask that counts a pixel exactly at the threshold as content
AlphaMaskAtLeast(image, threshold) ==
    [rr \in 0 .. (image.h - 1) |->
       [cc \in 0 .. (image.w - 1) |-> image.a[rr][cc] >= threshold]]

\* mask = alpha > threshold
AlphaMask(image, threshold) ==
    [rr \in 0 .. (image.h - 1) |->
       [cc \in 0 .. (image.w - 1) |-> image.a[rr][cc] > threshold]]

\* rows = np.any(mask, axis=1)
AnyAxis1(image, mask) ==
    [rr \in 0 .. (image.h - 1) |-> \E cc \in 0 .. (image.w - 1) : mask[rr][cc]]

\* cols = np.any(mask, axis=0)
AnyAxis0(image, mask) ==
    [cc \in 0 .. (image.w - 1) |-> \E rr \in 0 .. (image.h - 1) : mask[rr][cc]]

\* np.any(v)
AnyOf(v) == \E k \in DOMAIN v : v[k]

----
\* autocrop_transparency and the content bounds it computes

\* The bounds computation that autocrop_transparency and find_elements
\* both spell out: mask, rows, cols, the "no content" test and the first
\* and last true index of rows and cols.
ContentBounds(image, threshold) ==
    LET mask == AlphaMask(image, threshold)
        rows == AnyAxis1(image, mask)
        cols == AnyAxis0(image, mask)
    IN  IF ~AnyOf(rows) \/ ~AnyOf(cols)
        THEN [found |-> FALSE]
        ELSE [found   |-> TRUE,
              row_min |-> First(Where(rows)),
              row_max |-> Last(Where(rows)),
              col_min |-> First(Where(cols)),
              col_max |-> Last(Where(cols))]

\* a crop that passes the inclusive maxima as the exclusive end
CropToBoundsExclusive(image, b) ==
    Crop(image, b.col_min, b.row_min, b.col_max, b.row_max)

\* return img.crop((col_min, row_min, col_max + 1, row_max + 1))
CropToBounds(image, b) ==
    Crop(image, b.col_min, b.row_min, b.col_max + 1, b.row_max + 1)

autocrop_transparency(image, threshold) ==
    IF image.mode # "RGBA" THEN image
    ELSE LET b == ContentBounds(image, threshold)
         IN  IF ~b.found THEN image ELSE CropToBounds(image, b)

----
\* Input images

Cells(w, h) == (0 .. (h - 1)) \X (0 .. (w - 1))

RECURSIVE SubsetsUpTo(_, _)
SubsetsUpTo(S, k) ==
    IF k = 0 THEN {{}}
    ELSE LET prev == SubsetsUpTo(S, k - 1)
         IN  prev \cup {T \cup {x} : T \in prev, x \in S}

\* Opacities given to the marked pixels: exactly at the default threshold
\* and just above it.  Every other pixel has opacity 0.
MarkedLevels == {DefaultThreshold, DefaultThreshold + 1}

MakeImage(w, h, m) ==
    [mode |-> "RGBA", w |-> w, h |-> h,
     a |-> [rr \in 0 .. (h - 1) |->
              [cc \in 0 .. (w - 1) |->
                 IF <<rr, cc>> \in DOMAIN m THEN m[<<rr, cc>>] ELSE 0]]]

\* An image without alpha channel (mode RGB); its a field is what
\* numpy would never read, kept at Opaque.
MakeRGB(w, h) ==
    [mode |-> "RGB", w |-> w, h |-> h,
     a |-> [rr \in 0 .. (h - 1) |-> [cc \in 0 .. (w - 1) |-> Opaque]]]

ImagesOfSize(w, h, k) ==
    {MakeImage(w, h, m) :
        m \in UNION {[S -> MarkedLevels] : S \in SubsetsUpTo(Cells(w, h), k)}}

Thresholds == {0, DefaultThreshold}

CropImages ==
    UNION {ImagesOfSize(w, h, MaxMarked) \cup {MakeRGB(w, h)} :
              w \in 1 .. MaxW, h \in 1 .. MaxH}

----
\* Predicates on images used to state the properties

\* the pixels of an image above a threshold, as <<row, column>> pairs
Above(image, threshold) ==
    {p \in Cells(image.w, image.h) : image.a[p[1]][p[2]] > threshold}

NoBounds == [found |-> FALSE]

----
\* SpecCrop: autocrop_transparency applied to an image, then to its result

InitCrop ==
    /\ img \in CropImages
    /\ thr \in Thresholds
    /\ pc = "start"
    /\ box = <<0, 0, 0, 0>>
    /\ padding = 0
    /\ dirExists = FALSE
    /\ i = 0
    /\ rect = <<0, 0, 0, 0>>
    /\ bounds = NoBounds
    /\ element_img = NoImage
    /\ second_img = NoImage
    /\ extracted = <<>>
    /\ files = {}
    /\ metadata = [total |-> 0, elements |-> <<>>, written |-> FALSE]
    /\ img0 = img
    /\ table = <<>>
    /\ ppc = <<>>
    /\ local_img = <<>>
    /\ results = <<>>

AutocropOnce ==
    /\ pc = "start"
    /\ bounds' = (IF img.mode = "RGBA" THEN ContentBounds(img, thr) ELSE NoBounds)
    /\ element_img' = autocrop_transparency(img, thr)
    /\ pc' = "once"
    /\ UNCHANGED <<img, thr, box, padding, dirExists, i, rect, second_img,
                   extracted, files, metadata, img0, table, ppc, local_img,
                   results>>

AutocropTwice ==
    /\ pc = "once"
    /\ second_img' = autocrop_transparency(element_img, thr)
    /\ pc' = "twice"
    /\ UNCHANGED <<img, thr, box, padding, dirExists, i, rect, bounds,
                   element_img, extracted, files, metadata, img0, table, ppc,
                   local_img, results>>

NextCrop == AutocropOnce \/ AutocropTwice

SpecCrop == InitCrop /\ [][NextCrop]_vars

----
\* The padded crop of one region (the body of the loop of find_elements)

\* a padded rectangle that is not clamped to the image
PaddedRectUnclamped(image, b, p) ==
    <<b[1] - p, b[2] - p, b[1] + b[3] + p, b[2] + b[4] + p>>

\* a padded rectangle whose far edges forget the padding
PaddedRectNearOnly(image, b, p) ==
    <<Max(0, b[1] - p), Max(0, b[2] - p),
      Min(image.w, b[1] + b[3]), Min(image.h, b[2] + b[4])>>

\* x, y, w, h = element['box']
\* x1 = max(0, x - padding);          y1 = max(0, y - padding)
\* x2 = min(img.width, x + w + padding); y2 = min(img.height, y + h + padding)
PaddedRect(image, b, p) ==
    <<Max(0, b[1] - p), Max(0, b[2] - p),
      Min(image.w, b[1] + b[3] + p), Min(image.h, b[2] + b[4] + p)>>

\* a crop that takes the rectangle with x and y exchanged
CropRectSwapped(image, r) == Crop(image, r[2], r[1], r[4], r[3])

\* element_img = img.crop((x1, y1, x2, y2))
CropRect(image, r) == Crop(image, r[1], r[2], r[3], r[4])

----
\* SpecBox: one region rectangle through the padded crop and autocrop

\* region rectangles <<x, y, w, h>> lying within an image
BoxesWithin(image) ==
    {b \in (0 .. image.w) \X (0 .. image.h) \X (0 .. image.w) \X (0 .. image.h) :
        b[1] + b[3] <= image.w /\ b[2] + b[4] <= image.h}

\* The scenario of the specification: a 100 x 100 image, transparent but
\* for an opaque 10 x 10 square at (40, 40); region (30, 30, 40, 40).
Scenario == [w |-> 100, h |-> 100, at |-> 40, side |-> 10,
             box |-> <<30, 30, 40, 40>>]

ScenarioImage ==
    MakeImage(Scenario.w, Scenario.h,
              [p \in (Scenario.at .. (Scenario.at + Scenario.side - 1)) \X
                     (Scenario.at .. (Scenario.at + Scenario.side - 1)) |-> Opaque])

BoxImages ==
    {ScenarioImage} \cup
    UNION {ImagesOfSize(w, h, BoxMarked) : w \in 1 .. BoxW, h \in 1 .. BoxH}

BoxesFor(image) ==
    IF image = ScenarioImage THEN {Scenario.box} ELSE BoxesWithin(image)

PaddingsFor(image) ==
    IF image = ScenarioImage THEN {DefaultPadding} ELSE 0 .. MaxPad

InitBox ==
    /\ img \in BoxImages
    /\ thr = DefaultThreshold
    /\ pc = "start"
    /\ box = <<0, 0, 0, 0>>
    /\ padding = 0
    /\ dirExists = FALSE
    /\ i = 0
    /\ rect = <<0, 0, 0, 0>>
    /\ bounds = NoBounds
    /\ element_img = NoImage
    /\ second_img = NoImage
    /\ extracted = <<>>
    /\ files = {}
    /\ metadata = [total |-> 0, elements |-> <<>>, written |-> FALSE]
    /\ img0 = img
    /\ table = <<>>
    /\ ppc = <<>>
    /\ local_img = <<>>
    /\ results = <<>>

\* lines 61-70: the padded rectangle of a region and its crop
PaddedCrop ==
    /\ pc = "start"
    /\ \E b \in BoxesFor(img), p \in PaddingsFor(img) :
          /\ box' = b
          /\ padding' = p
          /\ rect' = PaddedRect(img, b, p)
          /\ element_img' = CropRect(img, PaddedRect(img, b, p))
    /\ pc' = "cropped"
    /\ UNCHANGED <<img, thr, dirExists, i, bounds, second_img, extracted,
                   files, metadata, img0, table, ppc, local_img, results>>

\* line 73: element_img = autocrop_transparency(element_img)
AutocropRegion ==
    /\ pc = "cropped"
    /\ bounds' = ContentBounds(element_img, DefaultThreshold)
    /\ element_img' = autocrop_transparency(element_img, DefaultThreshold)
    /\ pc' = "sprite"
    /\ UNCHANGED <<img, thr, box, padding, dirExists, i, rect, second_img,
                   extracted, files, metadata, img0, table, ppc, local_img,
                   results>>

NextBox == PaddedCrop \/ AutocropRegion

SpecBox == InitBox /\ [][NextBox]_vars

----
\* define_ui_regions: the region table

\* int(n * 0.pp): the truncated product.  Python multiplies in binary
\* floating point; the result is floor(n * pp / 100) for every n below 50
\* and every factor of the table (int(50 * 0.58) is 28), and the images of
\* this model are narrower than that.
Scaled(n, pp) == (n * pp) \div 100

Region(name, w, h, px, py, pw, ph) ==
    [name |-> name,
     box  |-> <<Scaled(w, px), Scaled(h, py), Scaled(w, pw), Scaled(h, ph)>>]

define_ui_regions(w, h) ==
    << Region("panel_victory", w, h, 2, 5, 15, 90),
       Region("star_filled_01", w, h, 18, 5, 5, 15),
       Region("star_filled_02", w, h, 24, 5, 5, 15),
       Region("star_filled_03", w, h, 30, 5, 5, 15),
       Region("star_empty_01", w, h, 18, 25, 5, 15),
       Region("star_empty_02", w, h, 24, 25, 5, 15),
       Region("star_empty_03", w, h, 30, 25, 5, 15),
       Region("star_empty_04", w, h, 18, 45, 5, 15),
       Region("star_empty_05", w, h, 24, 45, 5, 15),
       Region("star_empty_06", w, h, 30, 45, 5, 15),
       Region("icon_heart", w, h, 37, 5, 4, 12),
       Region("counter_timer", w, h, 42, 5, 8, 12),
       Region("icon_gem", w, h, 51, 5, 4, 12),
       Region("icon_coin", w, h, 37, 20, 4, 12),
       Region("counter_coins", w, h, 42, 20, 8, 12),
       Region("badge_level_24", w, h, 37, 65, 4, 15),
       Region("badge_level_25", w, h, 42, 65, 4, 15),
       Region("badge_level_26", w, h, 47, 65, 4, 15),
       Region("panel_defeat", w, h, 58, 5, 15, 90),
       Region("button_new_game", w, h, 75, 5, 12, 12),
       Region("button_resume", w, h, 75, 20, 12, 12),
       Region("button_settings", w, h, 75, 35, 12, 12),
       Region("button_shop", w, h, 75, 50, 12, 12),
       Region("button_exit", w, h, 75, 65, 12, 12),
       Region("decoration_grass_left", w, h, 2, 85, 8, 12),
       Region("decoration_grass_right", w, h, 92, 85, 8, 12) >>

----
\* Spec: a run of main, which calls find_elements and writes the metadata

\* an entry that records the padded rectangle where the region's own
\* rectangle is meant
ElementRecordPadded(element, r, sprite) ==
    [name         |-> element.name,
     original_box |-> <<r[1], r[2], r[3] - r[1], r[4] - r[2]>>,
     cropped_size |-> <<sprite.w, sprite.h>>,
     file         |-> element.name \o ".png"]

\* extracted.append({'name': ..., 'original_box': element['box'],
\*                   'cropped_size': [width, height], 'file': output_path})
ElementRecord(element, r, sprite) ==
    [name         |-> element.name,
     original_box |-> element.box,
     cropped_size |-> <<sprite.w, sprite.h>>,
     file         |-> element.name \o ".png"]

\* an autocrop that gives an empty image when it finds no content
AutocropEmptyOnNoContent(image, threshold) ==
    IF image.mode # "RGBA" THEN image
    ELSE LET b == ContentBounds(image, threshold)
         IN  IF ~b.found THEN Crop(image, 0, 0, 0, 0) ELSE CropToBounds(image, b)

\* the same, as the call of line 73 would make it
AutocropDefaultEmpty(image) == AutocropEmptyOnNoContent(image, DefaultThreshold)

\* line 73: the call autocrop_transparency(element_img), threshold defaulted
AutocropDefault(image) == autocrop_transparency(image, DefaultThreshold)

\* lines 60-86: what one iteration computes for a region of the table
ExtractOne(image, element, pad) ==
    LET r      == PaddedRect(image, element.box, pad)
        sprite == AutocropDefault(CropRect(image, r))
    IN  [rect |-> r, sprite |-> sprite,
         entry |-> ElementRecord(element, r, sprite)]

RunSizes == {<<1, 1>>, <<RunW, 1>>}

RunImages ==
    UNION {ImagesOfSize(d[1], d[2], RunMarked) \cup {MakeRGB(d[1], d[2])} :
              d \in RunSizes}

NoMetadata == [total |-> 0, elements |-> <<>>, written |-> FALSE]

Init ==
    /\ img \in RunImages
    /\ dirExists \in BOOLEAN
    /\ padding = DefaultPadding
    /\ thr = DefaultThreshold
    /\ pc = "start"
    /\ box = <<0, 0, 0, 0>>
    /\ i = 0
    /\ rect = <<0, 0, 0, 0>>
    /\ bounds = NoBounds
    /\ element_img = NoImage
    /\ second_img = NoImage
    /\ extracted = <<>>
    /\ files = {}
    /\ metadata = NoMetadata
    /\ img0 = img
    /\ table = <<>>
    /\ ppc = <<>>
    /\ local_img = <<>>
    /\ results = <<>>

\* find_elements, lines 17-44: load, convert to RGBA, test the whole image
\* for content above ContentThreshold; without content return [] at once
\* (before os.makedirs).
FindElementsNoContent ==
    /\ pc = "start"
    /\ ~ContentBounds(ConvertRGBA(img), ContentThreshold).found
    /\ img' = ConvertRGBA(img)
    /\ bounds' = NoBounds
    /\ extracted' = <<>>
    /\ pc' = "returned"
    /\ UNCHANGED <<thr, box, padding, dirExists, i, rect, element_img,
                   second_img, files, metadata, img0, table, ppc, local_img,
                   results>>

\* find_elements, lines 17-57: with content, take the overall bounds, the
\* region table, extracted = [] and os.makedirs(output_dir, exist_ok=True).
FindElementsBegin ==
    /\ pc = "start"
    /\ ContentBounds(ConvertRGBA(img), ContentThreshold).found
    /\ img' = ConvertRGBA(img)
    /\ bounds' = ContentBounds(ConvertRGBA(img), ContentThreshold)
    /\ table' = define_ui_regions(img.w, img.h)
    /\ extracted' = <<>>
    /\ dirExists' = TRUE
    /\ i' = 1
    /\ pc' = "loop"
    /\ UNCHANGED <<thr, box, padding, rect, element_img, second_img, files,
                   metadata, img0, ppc, local_img, results>>

\* find_elements, lines 59-86: one iteration of the loop over the table
ExtractRegion ==
    /\ pc = "loop"
    /\ i <= Len(table)
    /\ LET element == table[i]
           one     == ExtractOne(img, element, padding)
       IN  /\ box' = element.box
           /\ rect' = one.rect
           /\ element_img' = one.sprite
           /\ files' = files \cup {one.entry.file}
           /\ extracted' = Append(extracted, one.entry)
    /\ i' = i + 1
    /\ UNCHANGED <<img, thr, padding, dirExists, pc, bounds, second_img,
                   metadata, img0, table, ppc, local_img, results>>

\* find_elements, line 88: return extracted
FindElementsReturn ==
    /\ pc = "loop"
    /\ i > Len(table)
    /\ pc' = "returned"
    /\ UNCHANGED <<img, thr, box, padding, dirExists, i, rect, bounds,
                   element_img, second_img, extracted, files, metadata, img0,
                   table, ppc, local_img, results>>

\* main, lines 189-197: build the metadata and write it into output_dir
MainWriteMetadata ==
    /\ pc = "returned"
    /\ dirExists
    /\ metadata' = [total |-> Len(extracted), elements |-> extracted,
                    written |-> TRUE]
    /\ files' = files \cup {"metadata.json"}
    /\ pc' = "done"
    /\ UNCHANGED <<img, thr, box, padding, dirExists, i, rect, bounds,
                   element_img, second_img, extracted, img0, table, ppc,
                   local_img, results>>

\* main, lines 189-196: open(metadata_path, 'w') raises FileNotFoundError
\* when output_dir does not exist; nothing is written
MainOpenFails ==
    /\ pc = "returned"
    /\ ~dirExists
    /\ metadata' = [total |-> Len(extracted), elements |-> extracted,
                    written |-> FALSE]
    /\ pc' = "error"
    /\ UNCHANGED <<img, thr, box, padding, dirExists, i, rect, bounds,
                   element_img, second_img, extracted, files, img0, table,
                   ppc, local_img, results>>

Next ==
    \/ FindElementsNoContent
    \/ FindElementsBegin
    \/ ExtractRegion
    \/ FindElementsReturn
    \/ MainWriteMetadata
    \/ MainOpenFails

Spec == Init /\ [][Next]_vars

----
\* SpecPar: the body of the loop of find_elements, run for several regions
\* of the table in any order and interleaved, each region with its own
\* element_img, all reading the one source image

\* the regions the workers are drawn from: the panel on the left, a button
\* and the decoration at the right edge
ParPool == {1, 20, 26}

ParImages == ImagesOfSize(RunW, 1, RunMarked) \cup {MakeRGB(RunW, 1)}

InitPar ==
    /\ \E source \in ParImages :
          /\ img = ConvertRGBA(source)
          /\ img0 = ConvertRGBA(source)
          /\ table = define_ui_regions(source.w, source.h)
    /\ \E work \in SUBSET ParPool :
          /\ Cardinality(work) = ParWorkers
          /\ ppc = [r \in work |-> "todo"]
          /\ local_img = [r \in work |-> NoImage]
    /\ results = <<>>
    /\ padding = DefaultPadding
    /\ thr = DefaultThreshold
    /\ dirExists = TRUE
    /\ pc = "loop"
    /\ box = <<0, 0, 0, 0>>
    /\ i = 0
    /\ rect = <<0, 0, 0, 0>>
    /\ bounds = NoBounds
    /\ element_img = NoImage
    /\ second_img = NoImage
    /\ extracted = <<>>
    /\ files = {}
    /\ metadata = NoMetadata

\* a crop that cuts the source image itself down to the rectangle
ParCropInPlace(r) ==
    /\ ppc[r] = "todo"
    /\ img' = CropRect(img, PaddedRect(img, table[r].box, padding))
    /\ local_img' = [local_img EXCEPT ![r] = img']
    /\ ppc' = [ppc EXCEPT ![r] = "cropped"]
    /\ UNCHANGED <<thr, box, padding, dirExists, pc, i, rect, bounds,
                   element_img, second_img, extracted, files, metadata, img0,
                   table, results>>

\* lines 61-70 for region r: element_img = img.crop((x1, y1, x2, y2))
ParCrop(r) ==
    /\ ppc[r] = "todo"
    /\ local_img' = [local_img EXCEPT
                        ![r] = CropRect(img, PaddedRect(img, table[r].box, padding))]
    /\ ppc' = [ppc EXCEPT ![r] = "cropped"]
    /\ UNCHANGED <<img, thr, box, padding, dirExists, pc, i, rect, bounds,
                   element_img, second_img, extracted, files, metadata, img0,
                   table, results>>

\* line 73 for region r: element_img = autocrop_transparency(element_img)
ParAutocrop(r) ==
    /\ ppc[r] = "cropped"
    /\ local_img' = [local_img EXCEPT ![r] = AutocropDefault(local_img[r])]
    /\ ppc' = [ppc EXCEPT ![r] = "sprite"]
    /\ UNCHANGED <<img, thr, box, padding, dirExists, pc, i, rect, bounds,
                   element_img, second_img, extracted, files, metadata, img0,
                   table, results>>

\* lines 76-86 for region r: save the sprite and record the entry
ParRecord(r) ==
    /\ ppc[r] = "sprite"
    /\ results' = results @@
          (table[r].name :>
              ElementRecord(table[r], PaddedRect(img, table[r].box, padding),
                            local_img[r]))
    /\ files' = files \cup {table[r].name \o ".png"}
    /\ ppc' = [ppc EXCEPT ![r] = "done"]
    /\ UNCHANGED <<img, thr, box, padding, dirExists, pc, i, rect, bounds,
                   element_img, second_img, extracted, metadata, img0, table,
                   local_img>>

NextPar ==
    \E r \in DOMAIN ppc : ParCrop(r) \/ ParAutocrop(r) \/ ParRecord(r)

SpecPar == InitPar /\ [][NextPar]_vars

----
\* Properties of autocrop_transparency (checked under SpecCrop)

HasAlpha == img.mode = "RGBA"

\* C1: for an image with at least one pixel above the threshold, the bounds
\* row_min, row_max, col_min, col_max contain every pixel above the
\* threshold, and each of the four border lines of the rectangle holds a
\* pixel above the threshold.
C1_BoundsContainAndTight ==
    (pc \in {"once", "twice"} /\ HasAlpha /\ Above(img, thr) # {}) =>
        /\ bounds.found
        /\ \A p \in Above(img, thr) :
              /\ bounds.row_min <= p[1] /\ p[1] <= bounds.row_max
              /\ bounds.col_min <= p[2] /\ p[2] <= bounds.col_max
        /\ \E p \in Above(img, thr) : p[1] = bounds.row_min
        /\ \E p \in Above(img, thr) : p[1] = bounds.row_max
        /\ \E p \in Above(img, thr) : p[2] = bounds.col_min
        /\ \E p \in Above(img, thr) : p[2] = bounds.col_max

C1_Witness ==
    /\ pc = "once" /\ HasAlpha
    /\ Cardinality(Above(img, thr)) >= 2
    /\ bounds.found
    /\ bounds.row_min > 0 /\ bounds.row_min < bounds.row_max
    /\ bounds.col_min < bounds.col_max /\ bounds.col_max < img.w - 1

\* C2: for an image whose every pixel is at or below the threshold, the
\* bounds computation gives "no content" (found = FALSE, which no rectangle
\* outcome has), in autocrop_transparency and in the whole-image test of
\* find_elements alike, and autocrop_transparency crops nothing.
C2_NoContentBelowOrAtThreshold ==
    /\ (pc \in {"once", "twice"} /\ HasAlpha /\ Above(img, thr) = {}) =>
          /\ bounds = NoBounds
          /\ bounds.found = FALSE
          /\ element_img = img
    /\ (pc \in {"once", "twice"} /\ bounds.found) =>
          /\ bounds # NoBounds
          /\ Above(img, thr) # {}
    /\ (pc \in {"once", "twice"} /\ HasAlpha /\ Above(img, ContentThreshold) = {}) =>
          ~ContentBounds(img, ContentThreshold).found

C2_Witness ==
    /\ pc = "once" /\ HasAlpha
    /\ thr = DefaultThreshold
    /\ \E p \in Cells(img.w, img.h) : img.a[p[1]][p[2]] = thr
    /\ Above(img, thr) = {}
    /\ ~bounds.found

\* C3: autocrop_transparency is idempotent: applied to its own result it
\* returns an image of the same dimensions and pixels.
C3_AutocropIdempotent ==
    pc = "twice" => second_img = element_img

C3_Witness ==
    /\ pc = "twice"
    /\ element_img # img
    /\ element_img.w >= 2 /\ element_img.h >= 2
    /\ second_img.w = element_img.w

\* C7: for an image with a pixel above the threshold the result is the
\* inclusive rectangle of the bounds: col_max - col_min + 1 wide,
\* row_max - row_min + 1 high, and its pixel (column ci, row rj) is the
\* input pixel (col_min + ci, row_min + rj).
C7_ResultIsInclusiveRectangle ==
    (pc \in {"once", "twice"} /\ HasAlpha /\ Above(img, thr) # {}) =>
        /\ bounds.found
        /\ element_img.mode = "RGBA"
        /\ element_img.w = bounds.col_max - bounds.col_min + 1
        /\ element_img.h = bounds.row_max - bounds.row_min + 1
        /\ DOMAIN element_img.a = 0 .. (element_img.h - 1)
        /\ \A rj \in 0 .. (element_img.h - 1) :
              /\ DOMAIN element_img.a[rj] = 0 .. (element_img.w - 1)
              /\ \A ci \in 0 .. (element_img.w - 1) :
                    element_img.a[rj][ci] =
                        img.a[bounds.row_min + rj][bounds.col_min + ci]
        /\ \E p \in Above(img, thr) :
              /\ p[1] = bounds.row_max
              /\ element_img.a[element_img.h - 1][p[2] - bounds.col_min] > thr
        /\ \E p \in Above(img, thr) :
              /\ p[2] = bounds.col_max
              /\ element_img.a[p[1] - bounds.row_min][element_img.w - 1] > thr

C7_Witness ==
    /\ pc = "once" /\ HasAlpha
    /\ bounds.found
    /\ bounds.col_min > 0 /\ bounds.row_min > 0
    /\ element_img.w >= 2
    /\ element_img.w < img.w
    /\ \E ci \in 0 .. (element_img.w - 1) : element_img.a[0][ci] = 0

----
\* Properties of the padded crop and of the pipeline (checked under SpecBox)

BoxWithinImage ==
    /\ box[1] >= 0 /\ box[2] >= 0 /\ box[3] >= 0 /\ box[4] >= 0
    /\ box[1] + box[3] <= img.w
    /\ box[2] + box[4] <= img.h

\* C4: for a region rectangle within the image and a padding >= 0 the padded
\* rectangle stays within the image, 0 <= x1 <= x2 <= width and
\* 0 <= y1 <= y2 <= height, and on every side where the padding does not
\* pass the edge it is the rectangle expanded by exactly the padding.
C4_PaddedRectWithinImage ==
    (pc \in {"cropped", "sprite"} /\ BoxWithinImage /\ padding >= 0) =>
        /\ 0 <= rect[1] /\ rect[1] <= rect[3] /\ rect[3] <= img.w
        /\ 0 <= rect[2] /\ rect[2] <= rect[4] /\ rect[4] <= img.h
        /\ (box[1] - padding >= 0) => rect[1] = box[1] - padding
        /\ (box[2] - padding >= 0) => rect[2] = box[2] - padding
        /\ (box[1] + box[3] + padding <= img.w) => rect[3] = box[1] + box[3] + padding
        /\ (box[2] + box[4] + padding <= img.h) => rect[4] = box[2] + box[4] + padding
        /\ (box[1] - padding < 0) => rect[1] = 0
        /\ (box[2] - padding < 0) => rect[2] = 0
        /\ (box[1] + box[3] + padding > img.w) => rect[3] = img.w
        /\ (box[2] + box[4] + padding > img.h) => rect[4] = img.h
        /\ (pc = "cropped") =>
              /\ element_img.w = rect[3] - rect[1]
              /\ element_img.h = rect[4] - rect[2]

\* padding passes the left edge but not the right one, and the rectangle
\* is moved on both sides
C4_Witness ==
    /\ pc = "cropped" /\ BoxWithinImage
    /\ padding > 0
    /\ box[1] - padding < 0
    /\ box[1] + box[3] + padding < img.w
    /\ rect[1] = 0
    /\ rect[3] = box[1] + box[3] + padding
    /\ box[2] + box[4] + padding > img.h

\* the pixels of the source above the threshold inside the padded rectangle
InsideRect ==
    {p \in Above(img, DefaultThreshold) :
        /\ rect[2] <= p[1] /\ p[1] < rect[4]
        /\ rect[1] <= p[2] /\ p[2] < rect[3]}

InScenario == img = ScenarioImage

\* C9: when the padded rectangle holds a pixel above the threshold, the
\* sprite, moved back by (x1, y1), is the tight bounding box of exactly the
\* pixels above the threshold inside the padded rectangle; in the scenario
\* the padded rectangle is (10, 10, 90, 90) and the sprite is the content
\* bounds of the whole image.
C9_PipelineTightBox ==
    (pc = "sprite" /\ InsideRect # {}) =>
        LET top    == First({p[1] : p \in InsideRect})
            bottom == Last({p[1] : p \in InsideRect})
            left   == First({p[2] : p \in InsideRect})
            right  == Last({p[2] : p \in InsideRect})
        IN  /\ bounds.found
            /\ rect[2] + bounds.row_min = top
            /\ rect[2] + bounds.row_max = bottom
            /\ rect[1] + bounds.col_min = left
            /\ rect[1] + bounds.col_max = right
            /\ element_img.w = right - left + 1
            /\ element_img.h = bottom - top + 1
            /\ \A rj \in 0 .. (element_img.h - 1), ci \in 0 .. (element_img.w - 1) :
                  element_img.a[rj][ci] = img.a[top + rj][left + ci]
            /\ InScenario =>
                  /\ rect = <<10, 10, 90, 90>>
                  /\ element_img = autocrop_transparency(img, DefaultThreshold)
                  /\ <<left, top, right, bottom>> = <<40, 40, 49, 49>>

\* the scenario has gone through the pipeline
C9_Witness ==
    /\ pc = "sprite" /\ InScenario
    /\ InsideRect # {}
    /\ element_img.w = Scenario.side /\ element_img.h = Scenario.side

\* a pixel above the threshold outside the padded rectangle, one inside
C9_WitnessOutside ==
    /\ pc = "sprite"
    /\ InsideRect # {}
    /\ InsideRect # Above(img, DefaultThreshold)

----
\* Properties of a run of main (checked under Spec)

\* the image as loaded has no pixel above the threshold of find_elements
SourceTransparent == Above(ConvertRGBA(img0), ContentThreshold) = {}

\* no pixel of the source above the threshold lies inside rectangle r
NothingInside(r) ==
    \A p \in Above(img, DefaultThreshold) :
        ~(r[2] <= p[1] /\ p[1] < r[4] /\ r[1] <= p[2] /\ p[2] < r[3])

\* C5: a run on an image without any pixel above the threshold extracts no
\* element, writes no element file, produces metadata with an empty
\* elements list and total 0, and completes normally, not in an error.
C5_TransparentRunCompletes ==
    (SourceTransparent /\ pc \in {"returned", "done", "error"}) =>
        /\ extracted = <<>>
        /\ files \subseteq {"metadata.json"}
        /\ pc # "error"
        /\ (pc = "done") =>
              metadata = [total |-> 0, elements |-> <<>>, written |-> TRUE]

\* C6: a region whose padded crop has no pixel above the threshold keeps
\* its padded crop unchanged, x2 - x1 by y2 - y1 and never of size zero; the
\* region is recorded all the same, the loop goes on through every region
\* of the table, and no run ends in an error once the loop has begun.
C6_EmptyRegionKeepsPaddedCrop ==
    /\ \A k \in 1 .. Len(extracted) :
          LET r == PaddedRect(img, table[k].box, padding)
          IN  NothingInside(r) =>
                /\ extracted[k].name = table[k].name
                /\ extracted[k].cropped_size = <<r[3] - r[1], r[4] - r[2]>>
                /\ r[3] - r[1] >= 1
                /\ r[4] - r[2] >= 1
    /\ (pc = "loop" /\ i > 1 /\ NothingInside(rect)) =>
          /\ element_img.w = rect[3] - rect[1]
          /\ element_img.h = rect[4] - rect[2]
          /\ \A rj \in 0 .. (element_img.h - 1), ci \in 0 .. (element_img.w - 1) :
                element_img.a[rj][ci] = img.a[rect[2] + rj][rect[1] + ci]
    /\ (pc = "loop") => Len(extracted) = i - 1
    /\ (pc \in {"returned", "done"} /\ ~SourceTransparent) =>
          Len(extracted) = Len(table)
    /\ (pc = "error") => (i = 0 /\ extracted = <<>>)

\* a finished run in which a region in the middle of the table had nothing
\* inside its padded rectangle and a later one had
C6_Witness ==
    /\ pc = "done"
    /\ \E k \in 1 .. Len(extracted), m \in 1 .. Len(extracted) :
          /\ k < m
          /\ NothingInside(PaddedRect(img, table[k].box, padding))
          /\ ~NothingInside(PaddedRect(img, table[m].box, padding))
          /\ extracted[k].cropped_size[1] > 1
          /\ extracted[m].cropped_size = <<1, 1>>

\* C10: in a completed run total is the number of entries of elements; that
\* number is 0 (no pixel of the image above the threshold) or the length of
\* the region table, and then the entries are in the order of the table,
\* one per region name, each with the region's unpadded rectangle as
\* original_box and a cropped_size from 1 x 1 up to the padded rectangle.
C10_MetadataCountsAllOrNothing ==
    (pc = "done") =>
        LET regions == define_ui_regions(img.w, img.h)
            entries == metadata.elements
        IN  /\ metadata.written
            /\ metadata.total = Len(entries)
            /\ entries = extracted
            /\ IF SourceTransparent THEN metadata.total = 0
                                    ELSE metadata.total = Len(regions)
            /\ \A k \in 1 .. Len(entries) :
                  LET r == PaddedRect(img, regions[k].box, padding)
                  IN  /\ entries[k].name = regions[k].name
                      /\ entries[k].original_box = regions[k].box
                      /\ entries[k].file = regions[k].name \o ".png"
                      /\ entries[k].cropped_size[1] >= 1
                      /\ entries[k].cropped_size[2] >= 1
                      /\ entries[k].cropped_size[1] <= r[3] - r[1]
                      /\ entries[k].cropped_size[2] <= r[4] - r[2]
            /\ \A k \in 1 .. Len(entries), m \in 1 .. Len(entries) :
                  (entries[k].name = entries[m].name) => k = m
            /\ files = {entries[k].file : k \in 1 .. Len(entries)}
                          \cup {"metadata.json"}

\* a completed run that recorded the whole table, with a region whose
\* padded rectangle differs from its own rectangle
C10_Witness ==
    /\ pc = "done"
    /\ metadata.total = Len(table)
    /\ Len(table) > 1
    /\ \E k \in 1 .. Len(metadata.elements) :
          /\ metadata.elements[k].original_box[3] >= 1
          /\ metadata.elements[k].cropped_size[1] >
                metadata.elements[k].original_box[3]

\* a completed run on an image without content
C10_WitnessEmpty ==
    /\ pc = "done"
    /\ SourceTransparent
    /\ metadata.total = 0

----
\* Properties of the loop body run in any order (checked under SpecPar)

\* C8: the source image is the same before and after every region, and a
\* region's sprite and recorded entry are those the sequential loop
\* computes for it from the source image, its rectangle and the padding,
\* whatever the order and interleaving of the regions.
C8_RegionsIndependent ==
    /\ img = img0
    /\ \A r \in DOMAIN ppc :
          /\ (ppc[r] \in {"sprite", "done"}) =>
                local_img[r] = ExtractOne(img0, table[r], padding).sprite
          /\ (ppc[r] = "done") =>
                /\ table[r].name \in DOMAIN results
                /\ results[table[r].name] =
                      ExtractOne(img0, table[r], padding).entry
          /\ (ppc[r] # "done") => table[r].name \notin DOMAIN results

\* two regions done, the later one of the table first, the sprites differ
C8_Witness ==
    \E r \in DOMAIN ppc, q \in DOMAIN ppc :
        /\ r < q
        /\ ppc[q] = "done" /\ ppc[r] = "cropped"
        /\ local_img[q] # local_img[r]
        /\ local_img[r].w < img.w

====
